---- MODULE Spec2Model ----
(***************************************************************************)
(* TXSonicLabPro: the batch runner of the App component.                   *)
(*                                                                         *)
(* The React state of App (files, isProcessing), the user's handlers       *)
(* (handleFileChange, removeFile, clearAll, processBatch) and the          *)
(* continuations of the async function processBatch, one action per        *)
(* handler or per resumption after an await.                               *)
(*                                                                         *)
(* React commits the updates of a discrete event (click, change) before    *)
(* the next event is dispatched, and the updates made after an await only  *)
(* ever leave the rendered isProcessing at true for longer; so a handler   *)
(* that runs reads, through its closure, the state as it is, and the       *)
(* handlers read files and isProcessing directly.                          *)
(***************************************************************************)
EXTENDS Integers, Sequences, FiniteSets, TLC

(* ------------------------------ bounds --------------------------------- *)

\* File objects the user picks over the whole behaviour.
MaxFiles == 3
\* The same, where the runs count their calls of analyzeAudioEmotion.
MaxTallyFiles == 2
\* Entries of a queue that is exported.
MaxExportFiles == 2

(* --------------------------- program constants -------------------------- *)

maxRetries == 2
BackoffUnit == 5000

\* types.ts, enum EmotionStatus
IDLE == "IDLE"
PROCESSING == "PROCESSING"
COMPLETED == "COMPLETED"
FAILED == "FAILED"
EmotionStatus == {IDLE, PROCESSING, COMPLETED, FAILED}

\* The two texts of the error field (part_000 line 133): the rate-limit
\* label ("pin lv chao xian", frequency exceeded) and the generic label
\* ("fen xi shi bai", analysis failed).
RateLimitLabel == "frequency exceeded"
GenericLabel == "analysis failed"

(* ------------------------------ values ---------------------------------- *)

\* A JavaScript object is a function on its own keys; a key holding
\* undefined is a key the object lacks.
Has(o, k) == k \in DOMAIN o

\* { ...f, ...g }: the keys of g win.
Spread(f, g) ==
  [k \in (DOMAIN f) \cup (DOMAIN g) |-> IF k \in DOMAIN g THEN g[k] ELSE f[k]]

\* o without the keys ks (a key assigned undefined).
Without(o, ks) == [k \in (DOMAIN o) \ ks |-> o[k]]

ResultKeys == {"emotionType", "emotionLevel", "voiceIdentity", "reasoning"}

\* Math.random().toString(36).substring(7): ids are texts that the program
\* only compares with ===, so numbers stand for them.
Ids == 1..MaxFiles

\* What a thrown value carries: error.message is absent, or a text which
\* is modelled by the markers it contains; thrownBy (history) is the call
\* that threw it.
Markers == {"429", "RESOURCE_EXHAUSTED"}
Errors(by) ==
  {[thrownBy |-> by]} \cup
  {[thrownBy |-> by, message |-> m] : m \in SUBSET Markers}
NoError == <<>>

\* error.message?.includes(s)
Includes(error, s) == Has(error, "message") /\ s \in error.message

\* What JSON.parse(response.text) can be: geminiService.ts casts it to
\* AnalysisResult without looking at it.
FullResult(level) ==
  [emotionType |-> "joy", emotionLevel |-> level,
   voiceIdentity |-> "young man", reasoning |-> "fast and bright"]
Responses ==
  {FullResult(7), FullResult(11), Without(FullResult(7), {"reasoning"})}

VARIABLES
  files,         \* useState<AudioFile[]>: the queue
  isProcessing,  \* useState(false): the run-active flag
  runs,          \* the activations of processBatch suspended at an await
  returned,      \* history: the activation that returned in the last step
  picked,        \* history: File objects created so far
  tally,         \* history: whether a run counts its calls of analyzeAudioEmotion
  csv            \* the text of the Blob of the last export, with the queue it was made of

vars == <<files, isProcessing, runs, returned, picked, tally, csv>>

NoRun == <<>>
NoExport == <<>>

Init ==
  /\ files = <<>>
  /\ isProcessing = FALSE
  /\ runs = <<>>
  /\ returned = NoRun
  /\ picked = 0
  /\ tally = FALSE
  /\ csv = NoExport

(* ----------------------------- the queue -------------------------------- *)

\* prev.map(f => f.id === id ? { ...f, ...patch, [drop]: undefined } : f)
UpdateById(prev, id, patch, drop) ==
  [n \in DOMAIN prev |->
     IF prev[n].id = id THEN Without(Spread(prev[n], patch), drop) ELSE prev[n]]

\* A new queue entry of handleFileChange.
NewAudioFile(id, file) == [id |-> id, file |-> file, status |-> IDLE]

\* The ids held by the queue and by the snapshots of the activations.
IdsInUse ==
  {files[n].id : n \in DOMAIN files} \cup
  UNION {{runs[n].pendingFiles[m].id : m \in DOMAIN runs[n].pendingFiles} :
         n \in DOMAIN runs}

Least(S) == CHOOSE x \in S : \A y \in S : x <= y

\* The draws of Math.random for k new entries: nothing keeps a draw from
\* being an id already in use or drawn before; a draw that is neither is
\* represented by the least number not in use.
RECURSIVE Draws(_, _)
Draws(used, k) ==
  IF k = 0 THEN {<<>>}
  ELSE UNION {{<<id>> \o rest : rest \in Draws(used \cup {id}, k - 1)} :
              id \in used \cup {Least(Ids \ used)}}

\* File objects still to be picked.
Unpicked == (IF tally THEN MaxTallyFiles ELSE MaxFiles) - picked

\* handleFileChange: one change event with k files.
handleFileChange ==
  \E k \in 1..Unpicked :
    /\ \E ids \in Draws(IdsInUse, k) :
         files' = files \o [n \in 1..k |-> NewAudioFile(ids[n], picked + n)]
    /\ picked' = picked + k
    /\ returned' = NoRun
    /\ UNCHANGED <<isProcessing, runs, tally, csv>>

\* removeFile(id), the id being that of a row shown.
removeFile ==
  \E n \in DOMAIN files :
    LET id == files[n].id
        Keep(f) == f.id # id
    IN  /\ files' = SelectSeq(files, Keep)
        /\ returned' = NoRun
        /\ UNCHANGED <<isProcessing, runs, picked, tally, csv>>

\* The clear button while a run is active: left enabled.
ClearDisabledWhenEmpty == Len(files) = 0

\* disabled={files.length === 0 || isProcessing}, of the clear button
ClearDisabled == Len(files) = 0 \/ isProcessing

\* clearAll, reached through its button only; window.confirm answered yes
\* (answered no, nothing happens).
clearAll ==
  /\ ~ClearDisabled
  /\ files' = <<>>
  /\ returned' = NoRun
  /\ UNCHANGED <<isProcessing, runs, picked, tally, csv>>

(* ----------------------------- the runner ------------------------------- *)

\* Every failure taken for a rate limit.
IsRateLimitAlways(error) == TRUE

\* error.message?.includes("429") || error.message?.includes("RESOURCE_EXHAUSTED")
IsRateLimit(error) ==
  Includes(error, "429") \/ Includes(error, "RESOURCE_EXHAUSTED")

\* One retry too many: the bound compared with < before the increment
\* and <= after it.
MayRetryOnceMore(retryCount) == retryCount <= maxRetries + 1

\* retryCount <= maxRetries, of the count already incremented
MayRetry(retryCount) == retryCount <= maxRetries

\* The same wait before every retry.
WaitTimeFlat(retryCount) == BackoffUnit

\* const waitTime = retryCount * 5000
WaitTime(retryCount) == retryCount * BackoffUnit

\* error.message?.includes("429") ? <rate-limit label> : <generic label>
ErrorText(error) ==
  IF Includes(error, "429") THEN RateLimitLabel ELSE GenericLabel

\* f.status === EmotionStatus.IDLE || f.status === EmotionStatus.FAILED
IsPending(f) == f.status = IDLE \/ f.status = FAILED

\* const pendingFiles = files.filter(...). Of an entry of pendingFiles the
\* run reads its id and its file only, and those are kept.
PendingFiles(fs) ==
  LET sel == SelectSeq(fs, IsPending)
  IN  [n \in DOMAIN sel |-> [id |-> sel[n].id, file |-> sel[n].file]]

\* The bound of the 0-based loop taken for the 1-based index.
HasNextJobOffByOne(r) == r.i < Len(r.pendingFiles) - 1

\* i < pendingFiles.length - 1, i counted from 1 here
HasNextJob(r) == r.i < Len(r.pendingFiles)

\* The guard left out: every invocation starts a pass.
BusyNever == FALSE

\* if (isProcessing) return;
Busy == isProcessing

\* Line 96: the job is set to PROCESSING with its error cleared.
MarkProcessing(fs, id) == UpdateById(fs, id, [status |-> PROCESSING], {"error"})

\* Lines 98-102: the counters of the retry loop are reset and the loop is
\* entered up to its first await.
EnterJob(r, i) ==
  [r EXCEPT !.i = i, !.retryCount = 0, !.success = FALSE,
            !.pc = "fileToBase64", !.error = NoError,
            !.attempts = 1, !.waited = 0]

\* The success path, lines 107-115.
MarkCompleted(fs, id, result) ==
  LET patch == [status |-> COMPLETED] @@
               [k \in ResultKeys \cap DOMAIN result |-> result[k]]
  IN  UpdateById(fs, id, patch, ResultKeys \ DOMAIN result)

\* The failure path without its status: the text is stored and the job
\* is left as it was.
MarkFailedNoStatus(fs, id, error) ==
  UpdateById(fs, id, [error |-> GenericLabel], {})

\* The failure path, lines 130-134.
MarkFailed(fs, id, error) ==
  UpdateById(fs, id, [status |-> FAILED, error |-> ErrorText(error)], {})

\* What the queue and an activation become when a continuation has run up
\* to its next await (ret false) or to its return (ret true).
Step(fs, r, ret) == [files |-> fs, run |-> r, returned |-> ret]

\* Lines 139-144: after the while loop of job i.
AfterJob(fs, r) ==
  IF HasNextJob(r)
  THEN Step(fs, [r EXCEPT !.pc = "sleep(1500)", !.delays = @ + 1], FALSE)
  ELSE Step(fs, [r EXCEPT !.pc = "returned"], TRUE)

\* A catch block that lets a failure it does not retry leave processBatch:
\* the activation ends where it is.
CatchRethrows(fs, r, error) ==
  LET retryCount == IF IsRateLimit(error) THEN r.retryCount + 1 ELSE r.retryCount
      caught == [r EXCEPT !.error = error, !.retryCount = retryCount]
  IN  IF IsRateLimit(error) /\ MayRetry(retryCount)
      THEN Step(fs, [caught EXCEPT !.pc = "sleep(waitTime)",
                                   !.waited = @ + WaitTime(retryCount)], FALSE)
      ELSE Step(fs, [caught EXCEPT !.pc = "returned"], TRUE)

\* A catch block that looks the job up in the queue first and gives a job
\* that is no longer there no further attempt.
CatchSkipsRemoved(fs, r, error) ==
  LET id == r.pendingFiles[r.i].id
      inQueue == \E n \in DOMAIN fs : fs[n].id = id
      retryCount == IF IsRateLimit(error) THEN r.retryCount + 1 ELSE r.retryCount
      caught == [r EXCEPT !.error = error, !.retryCount = retryCount]
  IN  IF inQueue /\ IsRateLimit(error) /\ MayRetry(retryCount)
      THEN Step(fs, [caught EXCEPT !.pc = "sleep(waitTime)",
                                   !.waited = @ + WaitTime(retryCount)], FALSE)
      ELSE AfterJob(MarkFailed(fs, id, error), caught)

\* The catch block, lines 116-136.
Catch(fs, r, error) ==
  LET id == r.pendingFiles[r.i].id
      retryCount == IF IsRateLimit(error) THEN r.retryCount + 1 ELSE r.retryCount
      caught == [r EXCEPT !.error = error, !.retryCount = retryCount]
  IN  IF IsRateLimit(error) /\ MayRetry(retryCount)
      THEN Step(fs, [caught EXCEPT !.pc = "sleep(waitTime)",
                                   !.waited = @ + WaitTime(retryCount)], FALSE)
      ELSE AfterJob(MarkFailed(fs, id, error), caught)

RemoveAt(s, n) == [m \in 1..(Len(s) - 1) |-> IF m < n THEN s[m] ELSE s[m + 1]]

\* The continuation without line 144: the flag is left up when the
\* activation returns.
ResumeKeepsFlag(n, st) ==
  /\ files' = st.files
  /\ runs' = IF st.returned THEN RemoveAt(runs, n) ELSE [runs EXCEPT ![n] = st.run]
  /\ returned' = IF st.returned THEN st.run ELSE NoRun
  /\ UNCHANGED <<isProcessing, picked, tally, csv>>

\* The state after the continuation of activation n; setIsProcessing(false)
\* when it returns.
Resume(n, st) ==
  /\ files' = st.files
  /\ runs' = IF st.returned THEN RemoveAt(runs, n) ELSE [runs EXCEPT ![n] = st.run]
  /\ returned' = IF st.returned THEN st.run ELSE NoRun
  /\ isProcessing' = IF st.returned THEN FALSE ELSE isProcessing
  /\ UNCHANGED <<picked, tally, csv>>

\* The locals of an activation of processBatch, with the history of its
\* current job (attempts, waited) and of the run (delays, calls).
NewRun(pendingFiles) ==
  [pendingFiles |-> pendingFiles, i |-> 0, retryCount |-> 0,
   success |-> FALSE, pc |-> "start", error |-> NoError,
   attempts |-> 0, waited |-> 0, delays |-> 0, calls |-> 0]

\* processBatch up to its first await, or to its return when a run is
\* active or nothing is pending. Its button is disabled while isProcessing
\* or while the queue is empty (line 263); the function is taken for every
\* invocation, whatever the button, so that its own guard (line 89) is what
\* answers an invocation that finds a run in flight.
processBatch ==
  IF Busy
  THEN /\ returned' = [NewRun(<<>>) EXCEPT !.pc = "returned (busy)"]
       /\ UNCHANGED <<files, isProcessing, runs, picked, tally, csv>>
  ELSE LET r == NewRun(PendingFiles(files))
       IN  /\ UNCHANGED <<picked, tally, csv>>
           /\ IF r.pendingFiles = <<>>
              THEN /\ returned' = [r EXCEPT !.pc = "returned"]
                   /\ isProcessing' = FALSE
                   /\ UNCHANGED <<files, runs>>
              ELSE /\ files' = MarkProcessing(files, r.pendingFiles[1].id)
                   /\ runs' = Append(runs, EnterJob(r, 1))
                   /\ isProcessing' = TRUE
                   /\ returned' = NoRun

Count(calls) == IF tally THEN calls + 1 ELSE calls

\* await fileToBase64(audioFile.file) resolves: analyzeAudioEmotion is called.
fileToBase64Resolves ==
  \E n \in DOMAIN runs :
    /\ runs[n].pc = "fileToBase64"
    /\ Resume(n, Step(files, [runs[n] EXCEPT !.pc = "analyzeAudioEmotion",
                                             !.calls = Count(@)], FALSE))

\* What fileToBase64 rejects with when the content cannot be read: a
\* failure of the encoder, whatever its message.
EncodeFailures == Errors("fileToBase64")

\* await fileToBase64(audioFile.file) rejects.
fileToBase64Rejects ==
  \E n \in DOMAIN runs, error \in EncodeFailures :
    /\ runs[n].pc = "fileToBase64"
    /\ Resume(n, Catch(files, runs[n], error))

\* await analyzeAudioEmotion(...) resolves with what JSON.parse returned.
analyzeAudioEmotionResolves ==
  \E n \in DOMAIN runs, result \in Responses :
    /\ runs[n].pc = "analyzeAudioEmotion"
    /\ LET r == runs[n]
           id == r.pendingFiles[r.i].id
       IN  Resume(n, AfterJob(MarkCompleted(files, id, result),
                              [r EXCEPT !.success = TRUE]))

\* await analyzeAudioEmotion(...) rejects (the call, response.text or
\* JSON.parse threw).
analyzeAudioEmotionRejects ==
  \E n \in DOMAIN runs, error \in Errors("analyzeAudioEmotion") :
    /\ runs[n].pc = "analyzeAudioEmotion"
    /\ Resume(n, Catch(files, runs[n], error))

\* await sleep(waitTime) is over: continue leaves the catch block and its
\* error, and the next attempt begins.
backoffElapses ==
  \E n \in DOMAIN runs :
    /\ runs[n].pc = "sleep(waitTime)"
    /\ Resume(n, Step(files, [runs[n] EXCEPT !.pc = "fileToBase64",
                                             !.error = NoError,
                                             !.attempts = @ + 1], FALSE))

\* await sleep(1500) is over: i++, the next job begins.
delayElapses ==
  \E n \in DOMAIN runs :
    /\ runs[n].pc = "sleep(1500)"
    /\ LET r == runs[n]
           i == r.i + 1
       IN  Resume(n, Step(MarkProcessing(files, r.pendingFiles[i].id),
                          EnterJob(r, i), FALSE))

Next ==
  \/ handleFileChange
  \/ removeFile
  \/ clearAll
  \/ processBatch
  \/ fileToBase64Resolves
  \/ fileToBase64Rejects
  \/ analyzeAudioEmotionResolves
  \/ analyzeAudioEmotionRejects
  \/ backoffElapses
  \/ delayElapses

Spec == Init /\ [][Next]_vars

\* The same program, its runs counting their calls of analyzeAudioEmotion.
InitTally ==
  /\ files = <<>>
  /\ isProcessing = FALSE
  /\ runs = <<>>
  /\ returned = NoRun
  /\ picked = 0
  /\ tally = TRUE
  /\ csv = NoExport

SpecTally == InitTally /\ [][Next]_vars
\* Every await of processBatch comes to an end: the promise of
\* fileToBase64 and that of analyzeAudioEmotion settle, and the timers of
\* sleep fire.
AwaitsEnd ==
  /\ WF_vars(fileToBase64Resolves \/ fileToBase64Rejects)
  /\ WF_vars(analyzeAudioEmotionResolves \/ analyzeAudioEmotionRejects)
  /\ WF_vars(backoffElapses)
  /\ WF_vars(delayElapses)

SpecLive == InitTally /\ [][Next]_vars /\ AwaitsEnd

(* ------------------------------ the export ------------------------------ *)

\* A text is the sequence of its characters. DQ is the double quote.
DQ == "\""
Comma == ","
NewLine == "\n"

\* What stands before the rows: the byte order mark and the header line,
\* one token each.
Header == <<"BOM", "header", NewLine>>

\* String(n) of a natural number.
DigitOf(d) == <<"0", "1", "2", "3", "4", "5", "6", "7", "8", "9">>[d + 1]
RECURSIVE NumText(_)
NumText(n) ==
  IF n < 10 THEN <<DigitOf(n)>> ELSE NumText(n \div 10) \o <<DigitOf(n % 10)>>

\* text.replace(/"/g, '""')
RECURSIVE Replace(_)
Replace(text) ==
  IF text = <<>> THEN <<>>
  ELSE (IF Head(text) = DQ THEN <<DQ, DQ>> ELSE <<Head(text)>>) \o Replace(Tail(text))

\* `${f[k] || ''}` of a text field: undefined and '' give ''.
TextOrEmpty(f, k) == IF Has(f, k) THEN f[k] ELSE <<>>

\* `${f.emotionLevel || ''}`: undefined and 0 give ''.
LevelOrEmpty(f) ==
  IF Has(f, "emotionLevel") /\ f.emotionLevel # 0
  THEN NumText(f.emotionLevel) ELSE <<>>

\* `${f.reasoning?.replace(/"/g, '""') || ''}`
ReasoningOrEmpty(f) == IF Has(f, "reasoning") THEN Replace(f.reasoning) ELSE <<>>

\* The template literal of line 150.
Row(f) ==
  <<DQ>> \o f.name \o <<DQ, Comma, DQ>> \o TextOrEmpty(f, "emotionType") \o
  <<DQ, Comma, DQ>> \o LevelOrEmpty(f) \o
  <<DQ, Comma, DQ>> \o TextOrEmpty(f, "voiceIdentity") \o
  <<DQ, Comma, DQ>> \o ReasoningOrEmpty(f) \o <<DQ>>

\* rows.join("\n")
RECURSIVE Join(_)
Join(rows) ==
  IF rows = <<>> THEN <<>>
  ELSE IF Len(rows) = 1 THEN rows[1]
  ELSE rows[1] \o <<NewLine>> \o Join(Tail(rows))

\* exportResults: its button is disabled while files is empty.
exportResults ==
  /\ Len(files) > 0
  /\ csv' = [queue |-> files,
             text |-> Header \o Join([n \in DOMAIN files |-> Row(files[n])])]
  /\ UNCHANGED <<files, isProcessing, runs, returned, picked, tally>>

\* The texts of the queues that are exported: a name, a field of a result.
Names == {<<"a">>, <<"a", DQ, "b">>}
Reasonings == {<<"r">>, <<DQ, "r", DQ>>}
Levels == {0, 7, 10}

\* The entries of a queue that is exported: IDLE, FAILED, or COMPLETED with
\* what a response held.
ExportEntries ==
  {[name |-> nm, status |-> IDLE] : nm \in Names} \cup
  {[name |-> nm, status |-> FAILED, error |-> GenericLabel] : nm \in Names} \cup
  {[name |-> nm, status |-> COMPLETED, emotionType |-> <<"j">>,
    emotionLevel |-> l, voiceIdentity |-> <<"m">>, reasoning |-> rs] :
     nm \in Names, l \in Levels, rs \in Reasonings} \cup
  {[name |-> nm, status |-> COMPLETED, emotionType |-> <<"j">>,
    emotionLevel |-> l, voiceIdentity |-> <<"m">>] :
     nm \in Names, l \in Levels}

\* The queues that are exported, entry n made of File n with id n.
ExportQueues ==
  UNION {{[n \in 1..k |-> [id |-> n, file |-> n] @@ q[n]] :
            q \in [1..k -> ExportEntries]} : k \in 0..MaxExportFiles}

InitExport ==
  /\ files \in ExportQueues
  /\ isProcessing = FALSE
  /\ runs = <<>>
  /\ returned = NoRun
  /\ picked = Len(files)
  /\ tally = FALSE
  /\ csv = NoExport

NextExport ==
  \/ exportResults
  \/ removeFile

SpecExport == InitExport /\ [][NextExport]_vars

(* ------------------------- what the claims speak of --------------------- *)

\* The activations in sight: those suspended at an await, and the one that
\* returned in the last step.
Active == {runs[n] : n \in DOMAIN runs}
Returned == IF returned = NoRun THEN {} ELSE {returned}
ReturnedBusy == {r \in Returned : r.pc = "returned (busy)"}
ReturnedRun == {r \in Returned : r.pc = "returned"}

\* The activations whose job i has just ended: the while loop is left and
\* the next job has not begun.
JobEnded == {r \in Active \cup ReturnedRun : r.i >= 1 /\ r.pc \in {"sleep(1500)", "returned"}}

\* In an attempt of job i.
InAttempt == {r \in Active : r.pc \in {"fileToBase64", "analyzeAudioEmotion"}}

\* The queue entries made from a File object (one at most).
Entries(file) == {files[n] : n \in {m \in DOMAIN files : files[m].file = file}}
Job(r) == Entries(r.pendingFiles[r.i].file)

\* The message of a failure names a rate limit.
NamesRateLimit(error) ==
  Has(error, "message") /\ error.message \cap {"429", "RESOURCE_EXHAUSTED"} # {}

(* C1: at every moment at most one run is active, the flag isProcessing   *)
(* is up exactly while it is, and an invocation of processBatch that finds *)
(* a run in flight returns at once: it leaves the queue, the flag and the  *)
(* active run as they are, so it changes no job, starts no second pass     *)
(* and calls neither fileToBase64 nor analyzeAudioEmotion.                 *)
C1_SingleRun ==
  /\ [](Len(runs) <= 1 /\ (isProcessing <=> Len(runs) = 1))
  /\ [][(returned' # NoRun /\ returned'.pc = "returned (busy)")
          => (isProcessing /\ UNCHANGED <<files, isProcessing, runs>>)]_vars
  /\ [][~(isProcessing /\ Len(runs') > Len(runs))]_vars

\* processBatch was invoked while the run was awaiting analyzeAudioEmotion,
\* and returned at its guard.
C1_Witness ==
  /\ ReturnedBusy # {}
  /\ isProcessing
  /\ \E r \in Active : r.pc = "analyzeAudioEmotion"

\* The entry made from the same File object, one step later.
Later(f) == {files'[m] : m \in {k \in DOMAIN files' : files'[k].file = f.file}}

(* C2: once a job is COMPLETED, its status and its four result fields      *)
(* never change again for as long as it stays in the queue.                *)
C2_CompletedSticky ==
  [][\A n \in DOMAIN files :
       files[n].status = COMPLETED
         => \A g \in Later(files[n]) :
              /\ g.status = COMPLETED
              /\ \A k \in ResultKeys :
                   /\ Has(g, k) <=> Has(files[n], k)
                   /\ Has(g, k) => g[k] = files[n][k]]_vars

(* C3: the working set of a run is exactly the jobs that are IDLE or       *)
(* FAILED when the run starts, in queue order, and a job that is COMPLETED *)
(* when the run starts is never set to PROCESSING by that run.             *)
C3_WorkingSet ==
  /\ [][Len(runs') > Len(runs)
          => LET ws == runs'[Len(runs')].pendingFiles
                 sel == {n \in DOMAIN files : files[n].status \in {IDLE, FAILED}}
             IN  /\ Len(ws) = Cardinality(sel)
                 /\ \A m \in DOMAIN ws : \E n \in sel :
                      /\ ws[m].file = files[n].file
                      /\ ws[m].id = files[n].id
                      /\ Cardinality({k \in sel : k <= n}) = m]_vars
  /\ [][\A n \in DOMAIN files :
          files[n].status = COMPLETED
            => \A g \in Later(files[n]) : g.status # PROCESSING]_vars

\* The same two statements of queues whose ids differ pairwise, the ids of
\* the working sets included.
DistinctIds ==
  /\ \A n, m \in DOMAIN files : files[n].id = files[m].id => n = m
  /\ \A r \in Active : \A m \in DOMAIN r.pendingFiles : \A n \in DOMAIN files :
       r.pendingFiles[m].id = files[n].id => r.pendingFiles[m].file = files[n].file
  /\ \A r \in Active : \A m, n \in DOMAIN r.pendingFiles :
       r.pendingFiles[m].id = r.pendingFiles[n].id => m = n

\* With distinct ids a COMPLETED job keeps its status and its fields.
C2_StickyIfDistinctIds ==
  [][DistinctIds
       => \A n \in DOMAIN files :
            files[n].status = COMPLETED
              => \A g \in Later(files[n]) : g = files[n]]_vars

(* C4: within a run every job of the working set gets at least 1 and at    *)
(* most 3 attempts; a job whose attempts all fail with a rate-limit error  *)
(* makes exactly 3 attempts and then ends FAILED; retryCount restarts at 0 *)
(* for each job; and a run over n jobs has called analyzeAudioEmotion at   *)
(* most 3 times per job begun, so at most 3 * n times when it returns.     *)
C4_AttemptCap ==
  /\ \A r \in Active \cup ReturnedRun :
       /\ r.i >= 1 => r.attempts \in 1..3
       /\ r.i <= Len(r.pendingFiles)
       /\ r.i >= 1 => r.calls <= 3 * (r.i - 1) + r.attempts
       /\ r.calls <= 3 * Len(r.pendingFiles)
  /\ \A r \in ReturnedRun : r.i = Len(r.pendingFiles)
  /\ \A r \in InAttempt :
       /\ r.retryCount = r.attempts - 1
       /\ r.attempts = 1 => r.retryCount = 0
  /\ \A r \in JobEnded :
       (~r.success /\ r.retryCount = r.attempts)
         => /\ r.attempts = 3
            /\ NamesRateLimit(r.error)
            /\ \A f \in Job(r) : f.status = FAILED
  /\ \A r \in JobEnded :
       (~r.success /\ NamesRateLimit(r.error)) => r.retryCount = 3

\* A run over two jobs returned after six calls of analyzeAudioEmotion,
\* every one of them rejected with a rate-limit message.
C4_Witness ==
  \E r \in ReturnedRun :
    /\ Len(r.pendingFiles) = 2
    /\ r.calls = 6
    /\ r.attempts = 3 /\ r.retryCount = 3 /\ ~r.success
    /\ \A f \in Job(r) : f.status = FAILED
    /\ Job(r) # {}

\* The label the claims give a failure.
Label(error) == IF NamesRateLimit(error) THEN RateLimitLabel ELSE GenericLabel

(* C5: whenever a job ends FAILED because analyzeAudioEmotion failed, its  *)
(* error is the rate-limit label if the failure that ended the retry loop  *)
(* names a rate limit ("429" or "RESOURCE_EXHAUSTED" in its message) and   *)
(* the generic label otherwise.                                            *)
C5_ErrorLabel ==
  \A r \in JobEnded :
    (~r.success /\ r.error.thrownBy = "analyzeAudioEmotion")
      => \A f \in Job(r) :
           f.status = FAILED /\ Has(f, "error") /\ f.error = Label(r.error)

\* The label of line 133: the rate-limit label for a message with "429",
\* the generic label for every other failure.
C5_LabelOf429 ==
  \A r \in JobEnded :
    ~r.success
      => \A f \in Job(r) :
           /\ f.status = FAILED /\ Has(f, "error")
           /\ f.error = IF Includes(r.error, "429")
                        THEN RateLimitLabel ELSE GenericLabel

(* C6: a failure whose message names no rate limit is never retried: no    *)
(* backoff wait follows it, no later attempt follows it, and the job ends  *)
(* FAILED at that attempt, which is attempt k + 1 when k rate-limit        *)
(* failures came before it (attempt 1 when none did), the waits being      *)
(* those of the k rate-limit failures alone.                               *)
C6_NoRetryOfOther ==
  /\ \A r \in Active : r.pc = "sleep(waitTime)" => NamesRateLimit(r.error)
  /\ \A r \in InAttempt : r.attempts = r.retryCount + 1
  /\ \A r \in JobEnded :
       (~r.success /\ ~NamesRateLimit(r.error))
         => /\ r.attempts = r.retryCount + 1
            /\ r.retryCount \in 0..2
            /\ r.waited = (IF r.retryCount = 0 THEN 0
                           ELSE IF r.retryCount = 1 THEN 5000 ELSE 15000)
            /\ \A f \in Job(r) : f.status = FAILED

\* After two rate-limit failures a failure with another message ended the
\* job at its third attempt, FAILED with the generic label.
C6_Witness ==
  \E r \in JobEnded :
    /\ ~r.success
    /\ r.error = [thrownBy |-> "analyzeAudioEmotion", message |-> {}]
    /\ r.attempts = 3 /\ r.retryCount = 2
    /\ \E f \in Job(r) : f.status = FAILED /\ f.error = GenericLabel

(* C7: the wait asked for after the rate-limit failure of attempt k is     *)
(* k * 5000 ms for k = 1, 2 (5000, then 15000 in all), none follows a      *)
(* failed attempt 3, and a job that succeeds at its third attempt is       *)
(* COMPLETED after 3 attempts and 15000 ms of backoff.                     *)
C7_Backoff ==
  /\ \A r \in Active :
       r.pc = "sleep(waitTime)"
         => /\ r.retryCount \in {1, 2}
            /\ r.attempts = r.retryCount
            /\ r.waited = (IF r.retryCount = 1 THEN 5000 ELSE 5000 + 10000)
  /\ \A r \in InAttempt :
       r.waited = (IF r.attempts = 1 THEN 0
                   ELSE IF r.attempts = 2 THEN 5000 ELSE 5000 + 10000)
  /\ \A r \in JobEnded :
       /\ r.retryCount = 3 => (r.attempts = 3 /\ r.waited = 5000 + 10000)
       /\ (r.success /\ r.retryCount = 2)
            => /\ r.attempts = 3
               /\ r.waited = 5000 + 10000
               /\ \A f \in Job(r) : f.status = COMPLETED

\* "429" twice, then success: COMPLETED after three attempts and 15 s.
C7_Witness ==
  \E r \in JobEnded :
    /\ r.success /\ r.retryCount = 2 /\ r.attempts = 3
    /\ r.waited = 15000
    /\ \E f \in Job(r) : f.status = COMPLETED

(* C8: in a run over n jobs the delay of 1500 ms is begun once after each *)
(* job but the last, whether the job ended COMPLETED or FAILED, and not    *)
(* after the last: i - 1 delays lie behind job i, the run is in a delay    *)
(* only with a job still to come, and it returns after job n with n - 1    *)
(* delays (none for an empty working set).                                 *)
C8_InterJobDelay ==
  /\ \A r \in Active :
       /\ r.pc = "sleep(1500)" => (r.i < Len(r.pendingFiles) /\ r.delays = r.i)
       /\ r.pc # "sleep(1500)" => r.delays = r.i - 1
       /\ (r.pc = "sleep(waitTime)" \/ r \in InAttempt) => r.delays = r.i - 1
  /\ \A r \in ReturnedRun :
       /\ r.i = Len(r.pendingFiles)
       /\ r.delays = (IF Len(r.pendingFiles) = 0 THEN 0
                      ELSE Len(r.pendingFiles) - 1)

\* A run over three jobs returned after two delays, the first job FAILED
\* and the second COMPLETED.
C8_Witness ==
  \E r \in ReturnedRun :
    /\ Len(r.pendingFiles) = 3
    /\ r.delays = 2
    /\ \E f \in Entries(r.pendingFiles[1].file) : f.status = FAILED
    /\ \E f \in Entries(r.pendingFiles[2].file) : f.status = COMPLETED

\* The entries of the queue made from the File objects of a working set.
Selected(r) ==
  UNION {Entries(r.pendingFiles[m].file) : m \in DOMAIN r.pendingFiles}

(* C9: when a run ends, isProcessing is false, the run has gone through    *)
(* every job of its working set, and every job of the working set that is *)
(* in the queue is COMPLETED or FAILED; a failure ends a run only when it  *)
(* is that of the last job, every earlier one being followed by the delay  *)
(* before the next job.                                                    *)
C9_RunEnds ==
  /\ \A r \in ReturnedRun :
       /\ ~isProcessing
       /\ r.i = Len(r.pendingFiles)
       /\ \A f \in Selected(r) : f.status \in {COMPLETED, FAILED}
  /\ \A r \in Active :
       /\ isProcessing
       /\ r.pc = "sleep(1500)"
            => /\ r.i < Len(r.pendingFiles)
               /\ \A f \in Job(r) : f.status \in {COMPLETED, FAILED}

\* A run over two jobs returned, the first job FAILED at its first attempt
\* and the second COMPLETED.
C9_Witness ==
  \E r \in ReturnedRun :
    /\ Len(r.pendingFiles) = 2
    /\ r.success
    /\ \E f \in Entries(r.pendingFiles[1].file) :
         f.status = FAILED /\ f.error = GenericLabel
    /\ \E f \in Entries(r.pendingFiles[2].file) : f.status = COMPLETED

(* C10: in every reachable state a job has its four result fields if and   *)
(* only if its status is COMPLETED, and the emotionLevel of every          *)
(* COMPLETED job is an integer from 1 to 10.                               *)
C10_ResultFields ==
  \A n \in DOMAIN files :
    /\ (ResultKeys \subseteq DOMAIN files[n]) <=> files[n].status = COMPLETED
    /\ files[n].status = COMPLETED => files[n].emotionLevel \in 1..10

(* C11: in every reachable state a job has an error text if and only if    *)
(* it is FAILED, a FAILED job has none of the four result fields, and a    *)
(* FAILED job that a later run sets to PROCESSING has no error text from   *)
(* that moment.                                                            *)
C11_ErrorIffFailed ==
  /\ [](\A n \in DOMAIN files :
          /\ Has(files[n], "error") <=> files[n].status = FAILED
          /\ files[n].status = FAILED => ResultKeys \cap DOMAIN files[n] = {})
  /\ [][\A n \in DOMAIN files :
          files[n].status = FAILED
            => \A g \in Later(files[n]) :
                 g.status = PROCESSING => ~Has(g, "error")]_vars

\* The part of C11 that is about the error text alone.
C11_ErrorTextIffFailed ==
  /\ [](\A n \in DOMAIN files :
          Has(files[n], "error") <=> files[n].status = FAILED)
  /\ [][\A n \in DOMAIN files :
          files[n].status = FAILED
            => \A g \in Later(files[n]) :
                 g.status = PROCESSING => ~Has(g, "error")]_vars

(* C12: whenever isProcessing is false no job of the queue is PROCESSING,  *)
(* and no job is PROCESSING at the moment a run starts.                    *)
C12_IdleWhenNoRun ==
  /\ [](~isProcessing => \A n \in DOMAIN files : files[n].status # PROCESSING)
  /\ [][Len(runs') > Len(runs)
          => \A n \in DOMAIN files : files[n].status # PROCESSING]_vars

\* A run over two jobs has just returned, its last job FAILED, and the
\* queue still holds both jobs.
C12_Witness ==
  /\ ~isProcessing
  /\ \E r \in ReturnedRun :
       /\ Len(r.pendingFiles) = 2
       /\ ~r.success
       /\ \A m \in 1..2 : Entries(r.pendingFiles[m].file) # {}
       /\ \E f \in Job(r) : f.status = FAILED

\* The File objects of a working set.
WorkingFiles(r) == {r.pendingFiles[m].file : m \in DOMAIN r.pendingFiles}

(* C13: the jobs are set to PROCESSING in the order of the working set     *)
(* taken when the run started, one index after the other, and a job that   *)
(* is not in the working set of the active run (it was added after the     *)
(* run started) stays IDLE as long as that run goes on.                    *)
C13_OrderOfWorkingSet ==
  /\ [][\A n \in DOMAIN files :
          (files[n].status # PROCESSING /\
           \E g \in Later(files[n]) : g.status = PROCESSING)
            => \E m \in DOMAIN runs' :
                 LET r == runs'[m]
                 IN  /\ r.pendingFiles[r.i].file = files[n].file
                     /\ r.pc = "fileToBase64" /\ r.attempts = 1
                     /\ r.i = IF m \in DOMAIN runs THEN runs[m].i + 1 ELSE 1]_vars
  /\ [][\A r \in Active : \A n \in DOMAIN files :
          (files[n].status = IDLE /\ files[n].file \notin WorkingFiles(r))
            => \A g \in Later(files[n]) : g.status = IDLE]_vars

(* C14: clearAll never takes effect while a run is active: whenever        *)
(* isProcessing is true clearAll is disabled, and a step taken while       *)
(* isProcessing is true empties the queue only if it is the removal of     *)
(* the one id all its entries have.                                        *)
C14_NoClearDuringRun ==
  /\ [](isProcessing => ~ENABLED clearAll)
  /\ [][clearAll => ~isProcessing]_vars
  /\ [][(isProcessing /\ files # <<>> /\ files' = <<>>)
          => \A n, m \in DOMAIN files : files[n].id = files[m].id]_vars

\* A run is active over a queue of two jobs with different ids.
C14_Witness ==
  /\ isProcessing
  /\ Len(files) = 2
  /\ files[1].id # files[2].id
  /\ \E r \in Active : r.pc = "analyzeAudioEmotion"

(* C15: in every reachable state no two jobs of the queue have the same    *)
(* id.                                                                     *)
C15_UniqueIds ==
  \A n, m \in DOMAIN files : files[n].id = files[m].id => n = m


\* The five fields of a row as the claim has them: unset fields empty.
ClaimedFields(f) ==
  <<f.name,
    TextOrEmpty(f, "emotionType"),
    IF Has(f, "emotionLevel") THEN NumText(f.emotionLevel) ELSE <<>>,
    TextOrEmpty(f, "voiceIdentity"),
    TextOrEmpty(f, "reasoning")>>

\* A field between double quotes, its own double quotes doubled.
Quoted(text) == <<DQ>> \o Replace(text) \o <<DQ>>

ClaimedRow(f) ==
  LET fs == ClaimedFields(f)
  IN  Quoted(fs[1]) \o <<Comma>> \o Quoted(fs[2]) \o <<Comma>> \o
      Quoted(fs[3]) \o <<Comma>> \o Quoted(fs[4]) \o <<Comma>> \o Quoted(fs[5])

(* C16: an export holds one row per job of the queue, in queue order and   *)
(* whatever the status, each of the five fields (name, emotionType,        *)
(* emotionLevel, voiceIdentity, reasoning) between double quotes with its  *)
(* own double quotes doubled and an unset field empty: so a name with a    *)
(* double quote in it is exported with that double quote doubled.          *)
C16_ExportRows ==
  csv # NoExport
    => csv.text = Header \o Join([n \in DOMAIN csv.queue |-> ClaimedRow(csv.queue[n])])

\* The rows of an export agree with the claim for the jobs whose name has
\* no double quote and whose emotionLevel is not 0.
C16_RowsOfPlainNames ==
  csv # NoExport
    => \A n \in DOMAIN csv.queue :
         LET f == csv.queue[n]
         IN  (f.name = <<"a">> /\ (Has(f, "emotionLevel") => f.emotionLevel # 0))
               => Row(f) = ClaimedRow(f)


(* C17: a failure of fileToBase64 is never retried: whatever its message,  *)
(* no backoff wait follows it, and the job ends FAILED at that attempt     *)
(* with the generic label.                                                 *)
C17_EncodeFailureFinal ==
  /\ \A r \in Active :
       r.pc = "sleep(waitTime)" => r.error.thrownBy # "fileToBase64"
  /\ \A r \in JobEnded :
       (~r.success /\ r.error.thrownBy = "fileToBase64")
         => \A f \in Job(r) : f.status = FAILED /\ f.error = GenericLabel

\* A failure of fileToBase64 whose message names no rate limit ends the
\* job at that attempt, FAILED with the generic label.
C17_FinalUnlessRateLimitText ==
  /\ \A r \in Active :
       r.pc = "sleep(waitTime)" => NamesRateLimit(r.error)
  /\ \A r \in JobEnded :
       (~r.success /\ r.error.thrownBy = "fileToBase64" /\ ~NamesRateLimit(r.error))
         => \A f \in Job(r) : f.status = FAILED /\ f.error = GenericLabel

(* C18: a response that is malformed or lacks one of the four fields is a  *)
(* generic failure: a job never becomes COMPLETED with one of the four     *)
(* fields missing.                                                         *)
C18_NoPartialResult ==
  [][\A n \in DOMAIN files :
       files[n].status # COMPLETED
         => \A g \in Later(files[n]) :
              g.status = COMPLETED => ResultKeys \subseteq DOMAIN g]_vars

\* The changes of status of the state machine.
Transitions ==
  {<<IDLE, PROCESSING>>, <<FAILED, PROCESSING>>,
   <<PROCESSING, COMPLETED>>, <<PROCESSING, FAILED>>}

(* C19: a job is created IDLE and its status changes only from IDLE or     *)
(* FAILED to PROCESSING and from PROCESSING to COMPLETED or FAILED; it is  *)
(* PROCESSING throughout its attempts and backoff waits.                   *)
C19_StateMachine ==
  /\ [][\A n \in DOMAIN files : \A g \in Later(files[n]) :
          g.status = files[n].status \/ <<files[n].status, g.status>> \in Transitions]_vars
  /\ [][\A m \in DOMAIN files' :
          Entries(files'[m].file) = {} => files'[m].status = IDLE]_vars
  /\ [](\A r \in Active :
          r.pc \in {"fileToBase64", "analyzeAudioEmotion", "sleep(waitTime)"}
            => \A f \in Job(r) : f.status = PROCESSING)

\* The queue entries that are PROCESSING.
InProcessing == {n \in DOMAIN files : files[n].status = PROCESSING}

(* C20: at most one job of the queue is PROCESSING at any time, and a run  *)
(* goes on to job i + 1 only from the inter-job delay after job i, whose   *)
(* entry is COMPLETED or FAILED by then.                                   *)
C20_OneAtATime ==
  /\ [](Cardinality(InProcessing) <= 1)
  /\ [][\A m \in DOMAIN runs \cap DOMAIN runs' :
          runs'[m].i # runs[m].i
            => /\ runs'[m].i = runs[m].i + 1
               /\ runs[m].pc = "sleep(1500)"
               /\ \A f \in Job(runs[m]) : f.status \in {COMPLETED, FAILED}]_vars

\* The second conjunct of C20: the order of the steps of a run.
C20_NextJobAfterDelay ==
  [][\A m \in DOMAIN runs \cap DOMAIN runs' :
       runs'[m].i # runs[m].i
         => /\ runs'[m].i = runs[m].i + 1
            /\ runs[m].pc = "sleep(1500)"
            /\ \A f \in Job(runs[m]) : f.status \in {COMPLETED, FAILED}]_vars


\* The job of the working set that the next update of an activation aims
\* at: the next job from the inter-job delay, the current job otherwise.
Target(r) ==
  IF r.pc = "sleep(1500)" THEN r.pendingFiles[r.i + 1] ELSE r.pendingFiles[r.i]

\* A job of a working set that is no longer in the queue.
Removed(job) == Entries(job.file) = {}

(* C21: removeFile is permitted while a run is active, a job removed       *)
(* during a run never comes back into the queue, and every later step of   *)
(* the run that aims at the removed job (setting it PROCESSING, COMPLETED  *)
(* or FAILED) leaves the queue exactly as it is.                           *)
C21_RemovedStaysOut ==
  /\ []((isProcessing /\ files # <<>>) => ENABLED removeFile)
  /\ [][\A r \in Active : \A m \in DOMAIN r.pendingFiles :
          Removed(r.pendingFiles[m])
            => \A n \in DOMAIN files' : files'[n].file # r.pendingFiles[m].file]_vars
  /\ [][\A n \in DOMAIN runs :
          (runs' # runs /\ Removed(Target(runs[n]))) => files' = files]_vars

\* The part of C21 about the removed job itself: it is not in the queue
\* again.
C21_RemovedFileStaysOut ==
  [][\A r \in Active : \A m \in DOMAIN r.pendingFiles :
       Removed(r.pendingFiles[m])
         => \A n \in DOMAIN files' : files'[n].file # r.pendingFiles[m].file]_vars

\* The job a step of the runner aims at: job 1 of the new activation when
\* a run starts, the target of the activation that moves otherwise.
Aimed ==
  IF Len(runs') > Len(runs) THEN {runs'[Len(runs')].pendingFiles[1]}
  ELSE {Target(runs[n]) : n \in DOMAIN runs}

(* C22: the queue keeps insertion order and the user's actions touch no    *)
(* field of a job: an addition appends new IDLE jobs and leaves the        *)
(* existing ones as they are, removeFile takes out exactly the one job     *)
(* removed and keeps the others in order and unchanged, and a step of the  *)
(* runner keeps the length and the order of the queue and changes only    *)
(* the job it aims at.                                                     *)
C22_Frame ==
  /\ [][Len(files') > Len(files)
          => /\ SubSeq(files', 1, Len(files)) = files
             /\ \A n \in (Len(files) + 1)..Len(files') :
                  /\ files'[n].status = IDLE
                  /\ DOMAIN files'[n] = {"id", "file", "status"}
                  /\ Entries(files'[n].file) = {}]_vars
  /\ [][removeFile => \E n \in DOMAIN files : files' = RemoveAt(files, n)]_vars
  /\ [][runs' # runs
          => /\ Len(files') = Len(files)
             /\ \A n \in DOMAIN files :
                  /\ files'[n].id = files[n].id /\ files'[n].file = files[n].file
                  /\ files'[n] # files[n]
                       => \E job \in Aimed : job.file = files[n].file]_vars

\* The same frame with the jobs told apart by their ids alone.
C22_FrameById ==
  /\ [][Len(files') > Len(files)
          => SubSeq(files', 1, Len(files)) = files]_vars
  /\ [][removeFile
          => \E id \in Ids :
               LET Keep(f) == f.id # id IN files' = SelectSeq(files, Keep)]_vars
  /\ [][runs' # runs
          => /\ Len(files') = Len(files)
             /\ \A n \in DOMAIN files :
                  /\ files'[n].id = files[n].id /\ files'[n].file = files[n].file
                  /\ files'[n] # files[n]
                       => \E job \in Aimed : job.id = files[n].id]_vars


(* C23: every run terminates: if every await of processBatch comes to an   *)
(* end, a run that has started lowers isProcessing again, whatever the     *)
(* calls resolve or reject with and whatever is added to or removed from   *)
(* the queue meanwhile.                                                    *)
C23_RunTerminates ==
  (isProcessing /\ Len(runs) = 1) ~> (~isProcessing /\ Len(runs) = 0)

\* A run over two jobs has returned with the flag down, its first job
\* removed from the queue during the run and its second job FAILED after
\* three rate-limit failures.
C23_Witness ==
  /\ ~isProcessing
  /\ \E r \in ReturnedRun :
       /\ Len(r.pendingFiles) = 2
       /\ Removed(r.pendingFiles[1])
       /\ ~r.success /\ r.retryCount = 3
       /\ \E f \in Job(r) : f.status = FAILED


====
